---- MODULE Spec2Model ----
(***************************************************************************)
(* repo-digest: the pull-request listing and detail pipeline of query.go   *)
(* (Query, QueryPullRequests, QueryDetailedPullRequests), the derived      *)
(* metrics of a pull request (TotalChanges, Subdirectories, Class), the    *)
(* end of runDigest with Digest, and the monthly counter (CountMonthly).   *)
(*                                                                         *)
(* Strings that hold RFC 3339 timestamps are sequences: <<>> is the empty  *)
(* string, which time.Parse rejects, and <<k>> is the rendering of the     *)
(* instant k.  File names are sequences of one-character strings.          *)
(***************************************************************************)
EXTENDS Integers, Sequences, FiniteSets, TLC

VARIABLES
    cfg,        \* Config: Repos (number of configured repositories), Template,
                \* Before, Since, FetchSince, Now
    pc,         \* position of the command: "runDigest" or "runCountMonthly" on
                \* entry, then that of Query ("list", "page", "detailOpen",
                \* "detailClosed", "done", "failed") or of CountMonthly, and "exit"
    repo,       \* index of the repository QueryPullRequests is listing
    url,        \* QueryPullRequests' url: 0 is "", k > 0 is the k-th list page
    done,       \* QueryPullRequests' done flag
    os,         \* QueryPullRequests' open slice
    cs,         \* QueryPullRequests' closed slice
    open,       \* Query's open result
    closed,     \* Query's closed result
    err,        \* Query's err result (TRUE: non-nil)
    remaining,  \* records of the fetched page the for loop has not visited yet
    di,         \* QueryDetailedPullRequests' loop index i (pull requests finished)
    nListed,    \* history: number of records the list pages of this run carried
    cut,        \* history: a record with updated_at not after since was visited (this repository)
    wantOpen,   \* history: visited records before the cut, open and created after since
    wantClosed, \* history: visited records before the cut, merged and closed after since
    seen,       \* history: the kinds of record visited so far
    requests,   \* history: the requests handed to fetchURL, in order
    failure     \* history: where Query failed (in), the place in requests of
                \* the request that failed (req, 0: no request failed) and the
                \* length of Query's open slice at that moment (nOpen)

varsQ == <<cfg, pc, repo, url, done, os, cs, open, closed, err, remaining, di,
           nListed, cut, wantOpen, wantClosed, seen, requests, failure>>

VARIABLES
    files,      \* pr.Files of the pull request under the detail pass / metrics
    fetched,    \* history: the file list as decoded from the files endpoint
    sds,        \* Subdirectories: the sds slice after sort.Sort
    result,     \* Subdirectories: the returned slice
    fpc,        \* position: "idle", "fetch", "detailed", "rendered"
    unfetched   \* history: the changed files on the pages of the files
                \* endpoint after the first one (their number)

varsF == <<files, fetched, sds, result, fpc, unfetched>>

VARIABLES
    digested,   \* runDigest: Digest has been invoked
    outFile,    \* Digest: the digest file has been created
    ret,        \* the command's result: "running", "nil", "error", "panic"
    classes,    \* Digest: pr.Class of the rendered pull requests, open then closed
    preOpen,    \* history: the open slice as handed to Digest
    preClosed,  \* history: the closed slice as handed to Digest
    nextsince   \* runDigest: the "nextsince:" line written to stdout

varsD == <<digested, outFile, ret, classes, preOpen, preClosed, nextsince>>

VARIABLES
    counts,     \* CountMonthly: the counts slice
    idx,        \* CountMonthlyPullRequests: idx
    monthTotal, \* CountMonthlyPullRequests: monthTotal
    nextT,      \* CountMonthlyPullRequests: nextT
    visited,    \* history: created_at of the records CountMonthlyPullRequests visited
    visitedIn   \* history: the repository each of these records was listed in

varsM == <<counts, idx, monthTotal, nextT, visited, visitedIn>>

VARIABLES
    rec         \* history, kept by the specification of the loop body alone:
                \* the record the body of the listing loop ran on last

varsV == <<rec>>

vars == <<varsQ, varsF, varsD, varsM, varsV>>

----------------------------------------------------------------------------
(* Bounds of the model *)

MaxTime == 2        \* instants are 1..MaxTime
MaxNum == 2         \* pull-request numbers are 1..MaxNum
MaxRepos == 2       \* at most this many configured repositories
MaxPageLen == 2     \* records on one list page
MaxListed == 3      \* records listed in one run, over all pages and repositories
MaxPages == 2       \* list pages of one repository
MaxFiles == 3       \* files of one pull request
MaxChanges == 2     \* the changes field of a file is 0..MaxChanges
MaxMore == 1        \* changed files after the first page of the files endpoint

Times == 1..MaxTime
EmptyStr == <<>>
TimeStrs == {EmptyStr} \cup {<<t>> : t \in Times}
MergedAts == {EmptyStr, <<MaxTime>>}
States == {"open", "closed", "draft"}

\* The records a list page can carry for repository rp.
PullRequestsOf(rp) ==
    [Repo : {rp}, Number : 1..MaxNum, State : States,
     CreatedAt : TimeStrs, UpdatedAt : TimeStrs, ClosedAt : TimeStrs,
     MergedAt : MergedAts]

Min(a, b) == IF a < b THEN a ELSE b

----------------------------------------------------------------------------
(* time.Parse(time.RFC3339, s) and Time.Before *)

ParseTime(s) == [err |-> Len(s) = 0, t |-> IF Len(s) = 0 THEN 0 ELSE s[1]]

Before(t, u) == t < u


----------------------------------------------------------------------------
(* QueryPullRequests: the body of the loop over the fetched records *)

AfterSince_Inclusive(c, t) == ~Before(t, c.FetchSince)

\* query.go:316, 339, 343  c.FetchSince.Before(t)
AfterSince(c, t) == Before(c.FetchSince, t)

SwitchState_KeepUnmerged(pr) ==
    CASE pr.State = "open" -> [skip |-> FALSE, date |-> pr.CreatedAt]
      [] pr.State = "closed" -> [skip |-> FALSE, date |-> pr.ClosedAt]
      [] OTHER -> [skip |-> TRUE, date |-> EmptyStr]

SwitchState_OtherAsOpen(pr) ==
    CASE pr.State = "closed" ->
            IF pr.MergedAt = EmptyStr
            THEN [skip |-> TRUE, date |-> EmptyStr]
            ELSE [skip |-> FALSE, date |-> pr.ClosedAt]
      [] OTHER -> [skip |-> FALSE, date |-> pr.CreatedAt]

\* query.go:321-333  the switch on pr.State: skip the record or name its date
SwitchState(pr) ==
    CASE pr.State = "open" -> [skip |-> FALSE, date |-> pr.CreatedAt]
      [] pr.State = "closed" ->
            IF pr.MergedAt = EmptyStr
            THEN [skip |-> TRUE, date |-> EmptyStr]
            ELSE [skip |-> FALSE, date |-> pr.ClosedAt]
      [] OTHER -> [skip |-> TRUE, date |-> EmptyStr]

AppendByState_ClosedAlways(c, acc, pr, t) ==
    IF pr.State = "open"
    THEN IF AfterSince(c, t) THEN [acc EXCEPT !.open = Append(@, pr)] ELSE acc
    ELSE [acc EXCEPT !.closed = Append(@, pr)]

\* query.go:338-346  append to open or to closed
AppendByState(c, acc, pr, t) ==
    IF pr.State = "open"
    THEN IF AfterSince(c, t) THEN [acc EXCEPT !.open = Append(@, pr)] ELSE acc
    ELSE IF AfterSince(c, t) THEN [acc EXCEPT !.closed = Append(@, pr)] ELSE acc

\* query.go:310-348  one iteration of "for _, pr := range fetched"
\* acc = [open, closed, done, err]
VisitRecord(c, acc, pr) ==
    LET u == ParseTime(pr.UpdatedAt) IN
    IF u.err THEN [acc EXCEPT !.err = TRUE]
    ELSE IF ~AfterSince(c, u.t) THEN [acc EXCEPT !.done = TRUE]
    ELSE LET sw == SwitchState(pr) IN
         IF sw.skip THEN acc
         ELSE LET d == ParseTime(sw.date) IN
              IF d.err THEN [acc EXCEPT !.err = TRUE]
              ELSE AppendByState(c, acc, pr, d.t)

----------------------------------------------------------------------------
(* History of the listing, stated on the records themselves *)

NotAfterSince(c, s) == Len(s) > 0 /\ s[1] <= c.FetchSince
StrictlyAfterSince(c, s) == Len(s) > 0 /\ s[1] > c.FetchSince

IsOpenInWindow(c, pr) == pr.State = "open" /\ StrictlyAfterSince(c, pr.CreatedAt)
IsMergedInWindow(c, pr) ==
    pr.State = "closed" /\ pr.MergedAt # EmptyStr /\ StrictlyAfterSince(c, pr.ClosedAt)
IsUnmerged(pr) == pr.State = "closed" /\ pr.MergedAt = EmptyStr

\* The kinds of visited record the properties below speak about.
KindsOf(c, pr, wasCut) ==
    IF wasCut \/ ~StrictlyAfterSince(c, pr.UpdatedAt) THEN {}
    ELSE (IF IsUnmerged(pr) /\ StrictlyAfterSince(c, pr.ClosedAt) THEN {"unmerged"} ELSE {})
         \cup (IF pr.State = "open" /\ NotAfterSince(c, pr.CreatedAt) THEN {"oldOpen"} ELSE {})
         \cup (IF pr.State = "closed" /\ pr.MergedAt # EmptyStr
                  /\ NotAfterSince(c, pr.ClosedAt) THEN {"oldMerged"} ELSE {})

----------------------------------------------------------------------------
(* The parts of the state a specification leaves alone *)

NoFailure == [in |-> "none", req |-> 0, nOpen |-> 0]

\* No "nextsince:" line has been written
NoNextSince == [printed |-> FALSE, clock |-> FALSE, t |-> 0]

IdleD ==
    /\ nextsince = NoNextSince
    /\ digested = FALSE
    /\ outFile = FALSE
    /\ ret = "running"
    /\ classes = <<>>
    /\ preOpen = <<>>
    /\ preClosed = <<>>

IdleM ==
    /\ counts = <<>>
    /\ idx = 0
    /\ monthTotal = 0
    /\ nextT = 0
    /\ visited = <<>>
    /\ visitedIn = <<>>

----------------------------------------------------------------------------
(* Query and QueryPullRequests *)

\* main.go:595-611  the Config as the flags leave it: no or MaxRepos
\* repositories, an empty or a set template path, --before and --since as
\* strings; Now and FetchSince are zero until initConfig sets them
Flags(strs) ==
    [Repos : {0, MaxRepos}, Template : {EmptyStr, <<"t">>}, Before : strs,
     Since : strs, FetchSince : {0}, Now : {0}]

ConfigError_DatesOnly(c) ==
    ParseTime(c.Before).err \/ ParseTime(c.Since).err

\* main.go:613-633  initConfig returns an error
ConfigError(c) ==
    \/ c.Repos = 0
    \/ Len(c.Template) = 0
    \/ ParseTime(c.Before).err
    \/ ParseTime(c.Since).err

\* main.go:635-639 and 680-688, with initConfig (613-633): the command
\* returns the error of initConfig, or goes on to Query (query.go:273-276:
\* the first repository, if there is one) or to CountMonthly
initConfig ==
    /\ pc \in {"runDigest", "runCountMonthly"}
    /\ IF ConfigError(cfg)
       THEN /\ pc' = "exit"
            /\ ret' = "error"
            /\ UNCHANGED <<cfg, repo, url>>
       ELSE /\ cfg' = [cfg EXCEPT !.Now = ParseTime(cfg.Before).t,
                                  !.FetchSince = ParseTime(cfg.Since).t]
            /\ UNCHANGED ret
            /\ IF pc = "runCountMonthly"
               THEN pc' = "count" /\ UNCHANGED <<repo, url>>
               ELSE IF cfg.Repos = 0
               THEN pc' = "detailOpen" /\ UNCHANGED <<repo, url>>
               ELSE pc' = "list" /\ repo' = 1 /\ url' = 1
    /\ UNCHANGED <<done, os, cs, open, closed, err, remaining, di, nListed, cut,
                   wantOpen, wantClosed, seen, requests, failure>>
    /\ UNCHANGED <<digested, outFile, classes, preOpen, preClosed, nextsince>>
    /\ UNCHANGED <<varsF, varsM>>
    /\ UNCHANGED varsV

Init ==
    /\ cfg \in Flags(TimeStrs)
    /\ pc = "runDigest"
    /\ repo = 0
    /\ url = 0
    /\ done = FALSE
    /\ os = <<>>
    /\ cs = <<>>
    /\ open = <<>>
    /\ closed = <<>>
    /\ err = FALSE
    /\ remaining = 0
    /\ di = 0
    /\ nListed = 0
    /\ cut = FALSE
    /\ wantOpen = <<>>
    /\ wantClosed = <<>>
    /\ seen = {}
    /\ requests = <<>>
    /\ failure = NoFailure
    /\ files = <<>>
    /\ fetched = <<>>
    /\ sds = <<>>
    /\ result = <<>>
    /\ fpc = "idle"
    /\ unfetched = 0
    /\ IdleD
    /\ IdleM
    /\ rec = <<>>

\* query.go:279, 285, 288, 307, 314, 336  return nil, nil, err
Fail ==
    /\ pc' = "failed"
    /\ err' = TRUE
    /\ open' = <<>>
    /\ closed' = <<>>

\* fetchURL: the next-page URL it returns, "" (0) or the following page
NextURLs(u) == {0} \cup (IF u < MaxPages THEN {u + 1} ELSE {})

LoopCond_IgnoreDone(u, d) == u # 0

LoopCond_IgnoreURL(u, d) == ~d

\* query.go:303  len(url) > 0 && !done
LoopCond(u, d) == u # 0 /\ ~d

\* query.go:303-309  the loop head and the page fetch
ListFetch ==
    /\ pc = "list"
    /\ LoopCond(url, done)
    /\ requests' = Append(requests, [kind |-> "list", repo |-> repo, arg |-> url])
    /\ \/ /\ Fail
          /\ failure' = [in |-> "list", req |-> Len(requests) + 1,
                        nOpen |-> Len(open)]
          /\ UNCHANGED <<url, remaining, nListed>>
       \/ \E n \in 0..Min(MaxPageLen, MaxListed - nListed), next \in NextURLs(url) :
            /\ url' = next
            /\ remaining' = n
            /\ nListed' = nListed + n
            /\ pc' = IF n = 0 THEN "list" ELSE "page"
            /\ UNCHANGED <<open, closed, err, failure>>
    /\ UNCHANGED <<cfg, repo, done, os, cs, di, cut, wantOpen, wantClosed, seen>>
    /\ UNCHANGED <<varsF, varsD, varsM>>
    /\ UNCHANGED varsV

\* query.go:310-348  the loop body on pr, the next record of the fetched page
ListRecordOn(pr) ==
    /\ LET acc == VisitRecord(cfg, [open |-> os, closed |-> cs,
                                    done |-> FALSE, err |-> FALSE], pr)
       IN   /\ cut' = (cut \/ NotAfterSince(cfg, pr.UpdatedAt))
            /\ wantOpen' = IF ~cut' /\ IsOpenInWindow(cfg, pr)
                           THEN Append(wantOpen, pr) ELSE wantOpen
            /\ wantClosed' = IF ~cut' /\ IsMergedInWindow(cfg, pr)
                             THEN Append(wantClosed, pr) ELSE wantClosed
            /\ seen' = seen \cup KindsOf(cfg, pr, cut)
            /\ IF acc.err
               THEN /\ Fail
                    /\ failure' = [in |-> "page", req |-> 0, nOpen |-> Len(open)]
                    /\ UNCHANGED <<os, cs, done, remaining>>
               ELSE /\ os' = acc.open
                    /\ cs' = acc.closed
                    /\ done' = acc.done
                    /\ remaining' = remaining - 1
                    /\ pc' = IF acc.done \/ remaining = 1 THEN "list" ELSE "page"
                    /\ UNCHANGED <<open, closed, err, failure>>
    /\ UNCHANGED <<cfg, repo, url, di, nListed, requests>>
    /\ UNCHANGED <<varsF, varsD, varsM>>

\* query.go:310  "for _, pr := range fetched": the next record is one of prs
ListRecordIn(prs) ==
    /\ pc = "page"
    /\ remaining > 0
    /\ \E pr \in prs : ListRecordOn(pr)
    /\ UNCHANGED varsV

\* The next record is any one the page can carry
ListRecord == ListRecordIn(PullRequestsOf(repo))

\* query.go:351 and 274-283  QueryPullRequests returns; Query appends and goes on
ListReturn ==
    /\ pc = "list"
    /\ ~LoopCond(url, done)
    /\ open' = open \o os
    /\ closed' = closed \o cs
    /\ IF repo < cfg.Repos
       THEN /\ repo' = repo + 1
            /\ url' = 1
            /\ pc' = "list"
       ELSE /\ pc' = "detailOpen"
            /\ UNCHANGED <<repo, url>>
    /\ done' = FALSE
    /\ os' = <<>>
    /\ cs' = <<>>
    /\ remaining' = 0
    /\ cut' = FALSE
    /\ wantOpen' = <<>>
    /\ wantClosed' = <<>>
    /\ UNCHANGED <<cfg, err, di, nListed, seen, requests, failure>>
    /\ UNCHANGED <<varsF, varsD, varsM>>
    /\ UNCHANGED varsV

----------------------------------------------------------------------------
(* QueryDetailedPullRequests, as Query runs it on open and then on closed *)

DetailSlice == IF pc = "detailOpen" THEN open ELSE closed

DetailRequests_FilesFirst(pr) ==
    << [kind |-> "files",   repo |-> pr.Repo, arg |-> pr.Number],
       [kind |-> "commits", repo |-> pr.Repo, arg |-> pr.Number],
       [kind |-> "record",  repo |-> pr.Repo, arg |-> pr.Number] >>

\* query.go:361-371  the three requests for one pull request, in order
DetailRequests(pr) ==
    << [kind |-> "record",  repo |-> pr.Repo, arg |-> pr.Number],
       [kind |-> "commits", repo |-> pr.Repo, arg |-> pr.Number],
       [kind |-> "files",   repo |-> pr.Repo, arg |-> pr.Number] >>

RequestsUpTo_All(reqs, failAt) == reqs

\* query.go:362-371  "return err" after the request that fails: the requests
\* issued for this pull request are those up to the failing one
RequestsUpTo(reqs, failAt) == SubSeq(reqs, 1, failAt)

\* query.go:359-381  the loop body for prs[i]; failAt = 0: all three requests
\* succeed, failAt = k: the k-th request fails.  The detailed record carries
\* the listed values of the fields modelled here.
DetailPullRequest ==
    /\ pc \in {"detailOpen", "detailClosed"}
    /\ di < Len(DetailSlice)
    /\ \E failAt \in 0..3 :
         LET reqs == DetailRequests(DetailSlice[di + 1]) IN
         IF failAt = 0
         THEN /\ requests' = requests \o reqs
              /\ di' = di + 1
              /\ UNCHANGED <<pc, open, closed, err, failure>>
         ELSE /\ requests' = requests \o RequestsUpTo(reqs, failAt)
              /\ failure' = [in |-> pc, req |-> Len(requests) + failAt,
                            nOpen |-> Len(open)]
              /\ Fail
              /\ UNCHANGED di
    /\ UNCHANGED <<cfg, repo, url, done, os, cs, remaining, nListed, cut,
                   wantOpen, wantClosed, seen>>
    /\ UNCHANGED <<varsF, varsD, varsM>>
    /\ UNCHANGED varsV

\* query.go:383 and 284-290  QueryDetailedPullRequests returns nil
DetailReturn ==
    /\ pc \in {"detailOpen", "detailClosed"}
    /\ di = Len(DetailSlice)
    /\ pc' = IF pc = "detailOpen" THEN "detailClosed" ELSE "done"
    /\ di' = 0
    /\ UNCHANGED <<cfg, repo, url, done, os, cs, open, closed, err, remaining,
                   nListed, cut, wantOpen, wantClosed, seen, requests, failure>>
    /\ UNCHANGED <<varsF, varsD, varsM>>
    /\ UNCHANGED varsV

----------------------------------------------------------------------------
(* Properties of the listing *)

Range(s) == {s[i] : i \in 1..Len(s)}

Listing == pc \in {"list", "page"}
Returned == pc = "done" /\ ~err

\* C1: a listed record with state "closed" and an empty merged_at is in neither
\* the open nor the closed set, of QueryPullRequests and of Query, whatever its
\* other fields are.
C1_UnmergedInNoSet ==
    \A r \in Range(os) \cup Range(cs) \cup Range(open) \cup Range(closed) :
        ~IsUnmerged(r)

\* Query returned after visiting, in range, an unmerged closed record whose
\* closed_at is after since.
C1_Witness == Returned /\ "unmerged" \in seen

\* C2: while one repository is listed and when its listing returns, the open
\* set is, in listing order, the records before the first one with updated_at
\* not after since that are open and created strictly after since; no member
\* has created_at <= since.
C2_OpenSetExact ==
    Listing =>
        /\ os = wantOpen
        /\ \A r \in Range(os) : ~NotAfterSince(cfg, r.CreatedAt)

\* The listing of the first repository returns a non-empty open set after an
\* open record created at or before since and the cut were visited.
C2_Witness ==
    /\ pc = "list" /\ done /\ repo = 1
    /\ Len(os) > 0
    /\ "oldOpen" \in seen

\* C3: likewise the closed set is, in listing order, the records before the
\* cut that are closed, merged and closed strictly after since.
C3_ClosedSetExact ==
    Listing =>
        /\ cs = wantClosed
        /\ \A r \in Range(cs) : ~NotAfterSince(cfg, r.ClosedAt)

\* The listing of the first repository returns a non-empty closed set after a
\* merged record closed at or before since and the cut were visited.
C3_Witness ==
    /\ pc = "list" /\ done /\ repo = 1
    /\ Len(cs) > 0
    /\ "oldMerged" \in seen

\* C4: once a record with updated_at <= since was visited, the next step of
\* the listing issues no request and returns the sets as they are: no record
\* is added and no list page is fetched, also when a next-page URL is there.
C4_EarlyExit ==
    [][ (Listing /\ cut) =>
            /\ requests' = requests
            /\ open' = open \o os
            /\ closed' = closed \o cs ]_vars

\* The cut was met on a page that has records left and came with a next-page URL.
C4_Witness == pc = "list" /\ cut /\ done /\ url # 0 /\ remaining > 0

NoDuplicate(prs) ==
    \A i, j \in 1..Len(prs) :
        i < j => ~(prs[i].Repo = prs[j].Repo /\ prs[i].Number = prs[j].Number)

\* C5: in the sets Query returns, no pull request (repository and number)
\* occurs twice in the open set or twice in the closed set.
C5_Deduplicated == Returned => NoDuplicate(open) /\ NoDuplicate(closed)

\* C6: no returned open pull request was created after the before boundary
\* (Config.Now), and no returned closed one was closed after it.
C6_BeforeBound ==
    Returned =>
        /\ \A r \in Range(open) : ParseTime(r.CreatedAt).t <= cfg.Now
        /\ \A r \in Range(closed) : ParseTime(r.ClosedAt).t <= cfg.Now

----------------------------------------------------------------------------
(* Files of a pull request: the ignore patterns, TotalChanges, Subdirectories *)

\* File names, one character per element.
FileNames ==
    { <<"a", "/", "x", ".", "g", "o">>,
      <<"a", "/", "y", ".", "p", "b", ".", "g", "o">>,
      <<"b", "/", "z", ".", "c", "s", "s">>,
      <<"b", "/", "t", ".", "c", "s", "s", ".", "g", "o">>,
      <<"c", "/", "u", ".", "p", "b", ".", "c", "c">>,
      <<"c", "/", "w", ".", "p", "b", ".", "h">>,
      <<"m", ".", "g", "o">> }

Files == [Filename : FileNames, Changes : 0..MaxChanges]

\* regexp: an unanchored pattern matches when the literal occurs anywhere
Contains(s, lit) ==
    \E i \in 1..(Len(s) - Len(lit) + 1) : SubSeq(s, i, i + Len(lit) - 1) = lit

\* query.go:43-46  `.*\.pb\.(go|cc|h)` and `.*\.css`
ignoreRegexp ==
    << { <<".", "p", "b", ".", "g", "o">>,
         <<".", "p", "b", ".", "c", "c">>,
         <<".", "p", "b", ".", "h">> },
       { <<".", "c", "s", "s">> } >>

\* query.go:48-55
skipFile(f) ==
    \E k \in 1..Len(ignoreRegexp) : \E lit \in ignoreRegexp[k] : Contains(f, lit)

RECURSIVE FilterFiles(_)
FilterFiles_KeepAll(fs) == fs

\* query.go:372-379  newFiles: the fetched files that skipFile does not match
FilterFiles(fs) ==
    IF fs = <<>> THEN <<>>
    ELSE IF ~skipFile(Head(fs).Filename)
         THEN <<Head(fs)>> \o FilterFiles(Tail(fs))
         ELSE FilterFiles(Tail(fs))

\* query.go:184-190 and 113-119  the sum of f.Changes over a file slice
RECURSIVE TotalChanges(_)
TotalChanges(fs) ==
    IF fs = <<>> THEN 0 ELSE Head(fs).Changes + TotalChanges(Tail(fs))

\* path.Dir on a path without ".", ".." and doubled slashes: the part before
\* the last slash, "." when there is no slash, "/" for a file of the root "/"
LastSlash(s) ==
    LET at == {i \in 1..Len(s) : s[i] = "/"}
    IN IF at = {} THEN 0 ELSE CHOOSE i \in at : \A j \in at : j <= i

\* query.go:211
Dir(s) ==
    LET k == LastSlash(s)
    IN IF k = 0 THEN <<".">>
       ELSE IF k = 1 THEN <<"/">>
       ELSE SubSeq(s, 1, k - 1)

\* query.go:211-214
DirOf(f) ==
    LET dir == Dir(f.Filename)
    IN IF Len(dir) = 0 THEN <<"/">> ELSE dir

\* query.go:210-221  the groups, in the order their first file is met
RECURSIVE GroupFiles(_, _)
GroupFiles(fs, groups) ==
    IF fs = <<>> THEN groups
    ELSE LET f == Head(fs)
             dir == DirOf(f)
             known == \E i \in 1..Len(groups) : groups[i].Name = dir
             withDir == IF known THEN groups
                        ELSE Append(groups, [Name |-> dir, Files |-> <<>>])
             at == CHOOSE i \in 1..Len(withDir) : withDir[i].Name = dir
         IN GroupFiles(Tail(fs), [withDir EXCEPT ![at].Files = Append(@, f)])

\* query.go:131-133  Subdirectories.Less
Less(a, b) == TotalChanges(a.Files) > TotalChanges(b.Files)

Orderings(s) ==
    { [i \in 1..Len(s) |-> s[p[i]]] :
        p \in {q \in [1..Len(s) -> 1..Len(s)] : \A i, j \in 1..Len(s) : q[i] = q[j] => i = j} }

\* query.go:222  sort.Sort: a permutation ordered by Less; sort.Sort is not
\* stable, so elements that Less does not order come out in any order
SortOutcomes(s) ==
    { p \in Orderings(s) : \A i, j \in 1..Len(p) : i < j => ~Less(p[j], p[i]) }

Over80_AtLeast(count, total) == total # 0 /\ 5 * count >= 4 * total

\* query.go:227  float64(count)/float64(total) > 0.80; 0/0 is NaN, which
\* compares false
Over80(count, total) == total # 0 /\ 5 * count > 4 * total

RECURSIVE GroupsTotal(_)
GroupsTotal(gs) ==
    IF gs = <<>> THEN 0 ELSE TotalChanges(Head(gs).Files) + GroupsTotal(Tail(gs))

\* query.go:223-233  sds[:i+1] for the first i at which count is over 80%
RECURSIVE Truncate(_, _, _, _)
Truncate(sorted, total, i, count) ==
    IF i > Len(sorted) THEN sorted
    ELSE LET c == count + TotalChanges(sorted[i].Files)
         IN IF Over80(c, total) THEN SubSeq(sorted, 1, i)
            ELSE Truncate(sorted, total, i + 1, c)

\* query.go:356-359  a pull request enters the detail pass without files;
\* the listing is not part of this specification
InitFiles ==
    /\ cfg = [Repos |-> 0, FetchSince |-> 0, Now |-> 0]
    /\ pc = "idle"
    /\ repo = 0
    /\ url = 0
    /\ done = FALSE
    /\ os = <<>>
    /\ cs = <<>>
    /\ open = <<>>
    /\ closed = <<>>
    /\ err = FALSE
    /\ remaining = 0
    /\ di = 0
    /\ nListed = 0
    /\ cut = FALSE
    /\ wantOpen = <<>>
    /\ wantClosed = <<>>
    /\ seen = {}
    /\ requests = <<>>
    /\ failure = NoFailure
    /\ files = <<>>
    /\ fetched = <<>>
    /\ sds = <<>>
    /\ result = <<>>
    /\ fpc = "fetch"
    /\ unfetched = 0
    /\ IdleD
    /\ IdleM
    /\ rec = <<>>

\* query.go:369-379  the one files request of the detail pass, and the
\* filter.  fetchURL decodes the first page; the next-page URL it returns is
\* dropped ("_"), so the more files of the following pages are not requested.
FetchFiles ==
    /\ fpc = "fetch"
    /\ \E n \in 0..MaxFiles : \E fs \in [1..n -> Files] :
         /\ fetched' = fs
         /\ files' = FilterFiles(fs)
    /\ \E more \in 0..MaxMore : unfetched' = more
    /\ fpc' = "detailed"
    /\ UNCHANGED <<sds, result>>
    /\ UNCHANGED <<varsQ, varsD, varsM>>
    /\ UNCHANGED varsV

\* query.go:207-234  pr.Subdirectories()
Subdirectories ==
    /\ fpc = "detailed"
    /\ \E sorted \in SortOutcomes(GroupFiles(files, <<>>)) :
         /\ sds' = sorted
         /\ result' = Truncate(sorted, TotalChanges(files), 1, 0)
    /\ fpc' = "rendered"
    /\ UNCHANGED <<files, fetched, unfetched>>
    /\ UNCHANGED <<varsQ, varsD, varsM>>
    /\ UNCHANGED varsV

NextFiles ==
    \/ FetchFiles
    \/ Subdirectories

SpecFiles == InitFiles /\ [][NextFiles]_vars

----------------------------------------------------------------------------
(* Properties of the file list and of Subdirectories *)

RECURSIVE SumChangesAt(_, _)
SumChangesAt(fs, at) ==
    IF at = {} THEN 0
    ELSE LET i == CHOOSE k \in at : TRUE
         IN fs[i].Changes + SumChangesAt(fs, at \ {i})

KeptAt(fs) == {i \in 1..Len(fs) : ~skipFile(fs[i].Filename)}

\* C7: after the detail pass TotalChanges is the sum of changes over the
\* fetched files that no ignore pattern matches, so a matching file adds
\* nothing, and it is 0 when no file remains.
C7_TotalChangesOfKept ==
    fpc # "fetch" =>
        /\ TotalChanges(files) = SumChangesAt(fetched, KeptAt(fetched))
        /\ Len(files) = Cardinality(KeptAt(fetched))
        /\ (files = <<>> => TotalChanges(files) = 0)

\* A fetched list with an ignored file that has changes and a kept one that has.
C7_Witness ==
    /\ fpc = "detailed"
    /\ TotalChanges(files) > 0
    /\ \E i \in 1..Len(fetched) :
         skipFile(fetched[i].Filename) /\ fetched[i].Changes > 0

EndsWith(s, suffix) ==
    Len(s) >= Len(suffix) /\ SubSeq(s, Len(s) - Len(suffix) + 1, Len(s)) = suffix

HasIgnoredExtension(f) ==
    \/ EndsWith(f, <<".", "p", "b", ".", "g", "o">>)
    \/ EndsWith(f, <<".", "p", "b", ".", "c", "c">>)
    \/ EndsWith(f, <<".", "p", "b", ".", "h">>)
    \/ EndsWith(f, <<".", "c", "s", "s">>)

KeptByExtension(f) == ~HasIgnoredExtension(f.Filename)

\* C8: after the detail pass the file list is the fetched list, in order,
\* without exactly the files whose path ends in .pb.go, .pb.cc, .pb.h or .css.
C8_RemovedByExtension ==
    fpc # "fetch" => files = SelectSeq(fetched, KeptByExtension)

MetAt(g) ==
    LET met == GroupFiles(files, <<>>)
    IN CHOOSE i \in 1..Len(met) : met[i].Name = g.Name

\* C10: the sorted groups are in descending order of their sums, and groups
\* with equal sums are in the order in which their first file was met.
C10_StableDescending ==
    fpc = "rendered" =>
        \A i, j \in 1..Len(sds) :
            i < j =>
                \/ TotalChanges(sds[i].Files) > TotalChanges(sds[j].Files)
                \/ /\ TotalChanges(sds[i].Files) = TotalChanges(sds[j].Files)
                   /\ MetAt(sds[i]) < MetAt(sds[j])

\* C11: when TotalChanges is zero Subdirectories returns no groups, also
\* when the pull request has files and all of them have 0 changes.
C11_NoGroupsWhenZero ==
    (fpc = "rendered" /\ TotalChanges(files) = 0) => result = <<>>

\* The parent directory as the groups are to be named: the part of the path
\* before its last slash, the sentinel "/" for a path without a directory.
ParentDirectory(s) ==
    IF LastSlash(s) = 0 THEN <<"/">> ELSE SubSeq(s, 1, LastSlash(s) - 1)

GroupsHolding(f) ==
    {k \in 1..Len(sds) : \E j \in 1..Len(sds[k].Files) : sds[k].Files[j] = f}

\* C12: every file is in exactly one group, the group named after its parent
\* directory, and a file without a directory component is in the group "/".
C12_GroupedByParentDir ==
    fpc = "rendered" =>
        \A i \in 1..Len(files) :
            /\ Cardinality(GroupsHolding(files[i])) = 1
            /\ \A k \in GroupsHolding(files[i]) :
                 sds[k].Name = ParentDirectory(files[i].Filename)

----------------------------------------------------------------------------
(* runDigest after Query, Digest, and the metrics the template renders *)

MaxDigest == 3      \* pull requests handed to Digest, open and closed together

\* query.go:32-41
tinyPR == 20
smallPR == 100
mediumPR == 500
largePR == 1000

\* pr.Files: nil on a record as the list page carries it
FilesOf(pr) == IF "Files" \in DOMAIN pr THEN pr.Files ELSE <<>>

\* query.go:184-190  pr.TotalChanges()
PullRequestTotalChanges(pr) == TotalChanges(FilesOf(pr))

Dots(n) == [i \in 1..n |-> "&#9679;"]

Class_Inclusive(pr) ==
    LET tc == PullRequestTotalChanges(pr)
    IN IF tc <= tinyPR THEN Dots(1)
       ELSE IF tc <= smallPR THEN Dots(2)
       ELSE IF tc <= mediumPR THEN Dots(3)
       ELSE IF tc <= largePR THEN Dots(4)
       ELSE Dots(5)

\* query.go:238-249
Class(pr) ==
    LET tc == PullRequestTotalChanges(pr)
    IN IF tc < tinyPR THEN Dots(1)
       ELSE IF tc < smallPR THEN Dots(2)
       ELSE IF tc < mediumPR THEN Dots(3)
       ELSE IF tc < largePR THEN Dots(4)
       ELSE Dots(5)

PullRequestsLess_Ascending(a, b) ==
    PullRequestTotalChanges(a) < PullRequestTotalChanges(b)

\* digest.go:39-41  PullRequests.Less
PullRequestsLess(a, b) ==
    PullRequestTotalChanges(a) > PullRequestTotalChanges(b)

\* digest.go:56-57  sort.Sort on PullRequests: a permutation ordered by Less;
\* sort.Sort is not stable
SortedPullRequests(s) ==
    { p \in Orderings(s) :
        \A i, j \in 1..Len(p) : i < j => ~PullRequestsLess(p[j], p[i]) }

\* digest.go:70-105  where Digest returns: the step that fails, "" for none
DigestSteps == {"template", "execute", "create", "write", ""}

DigestInvoked_Always(e) == TRUE

\* main.go:640-645  Digest is called when Query returned no error
DigestInvoked(e) == ~e

\* main.go:640-643  Query returned an error: runDigest returns an error
QueryFailed ==
    /\ pc \in {"done", "failed"}
    /\ ~DigestInvoked(err)
    /\ pc' = "exit"
    /\ ret' = "error"
    /\ UNCHANGED <<cfg, repo, url, done, os, cs, open, closed, err, remaining,
                   di, nListed, cut, wantOpen, wantClosed, seen, requests,
                   failure>>
    /\ UNCHANGED <<digested, outFile, classes, preOpen, preClosed, nextsince>>
    /\ UNCHANGED <<varsF, varsM>>
    /\ UNCHANGED varsV

\* main.go:649-660  latestTime after the loop over the strings ts, entered
\* with the value latest: t.After(latestTime) replaces it
RECURSIVE Latest(_, _)
Latest(ts, latest) ==
    IF ts = <<>> THEN latest
    ELSE Latest(Tail(ts), IF ParseTime(Head(ts)).t > latest
                          THEN ParseTime(Head(ts)).t ELSE latest)

CreatedAts(prs) == [i \in 1..Len(prs) |-> prs[i].CreatedAt]

ClosedAts(prs) == [i \in 1..Len(prs) |-> prs[i].ClosedAt]

\* main.go:52-58  mustParseTime3339 panics on one of the strings
MustParsePanics(o, c) ==
    \E s \in {CreatedAts(o)[i] : i \in 1..Len(o)} \cup {ClosedAts(c)[i] : i \in 1..Len(c)} :
        ParseTime(s).err

LatestTime_OpenOnly(o, c) ==
    IF Len(o) + Len(c) = 0
    THEN [printed |-> TRUE, clock |-> TRUE, t |-> 0]
    ELSE [printed |-> TRUE, clock |-> FALSE, t |-> Latest(CreatedAts(o), 0)]

\* main.go:649-666  the instant of the "nextsince:" line: the latest created_at
\* of open and closed_at of closed, time.Now() (clock) when both are empty
LatestTime(o, c) ==
    IF Len(o) + Len(c) = 0
    THEN [printed |-> TRUE, clock |-> TRUE, t |-> 0]
    ELSE [printed |-> TRUE, clock |-> FALSE,
          t |-> Latest(ClosedAts(c), Latest(CreatedAts(o), 0))]

\* main.go:644-667 and digest.go:53-106  Digest sorts the two slices in place,
\* executes the template, which renders .Class of every pull request of Open
\* and then of Closed, creates the file and writes it
Digest ==
    /\ pc \in {"done", "failed"}
    /\ DigestInvoked(err)
    /\ digested' = TRUE
    /\ preOpen' = open
    /\ preClosed' = closed
    /\ \E so \in SortedPullRequests(open), sc \in SortedPullRequests(closed),
          failed \in DigestSteps :
         /\ open' = so
         /\ closed' = sc
         /\ classes' = IF failed \in {"template", "execute"} THEN <<>>
                       ELSE [i \in 1..(Len(so) + Len(sc)) |-> Class((so \o sc)[i])]
         /\ outFile' = (failed \in {"write", ""})
         /\ ret' = IF failed # "" THEN "error"
                   ELSE IF MustParsePanics(so, sc) THEN "panic" ELSE "nil"
         /\ nextsince' = IF failed = "" /\ ~MustParsePanics(so, sc)
                         THEN LatestTime(so, sc) ELSE nextsince
    /\ pc' = "exit"
    /\ UNCHANGED <<cfg, repo, url, done, os, cs, err, remaining, di, nListed,
                   cut, wantOpen, wantClosed, seen, requests, failure>>
    /\ UNCHANGED <<varsF, varsM>>
    /\ UNCHANGED varsV

Next ==
    \/ initConfig
    \/ ListFetch
    \/ ListRecord
    \/ ListReturn
    \/ DetailPullRequest
    \/ DetailReturn
    \/ QueryFailed
    \/ Digest

Spec == Init /\ [][Next]_vars

----------------------------------------------------------------------------
(* The listing of Query alone, every step of it taken in the end *)

\* query.go:273-283 and 295-352  Query up to the return of the last
\* QueryPullRequests
\* The records of the pages: every state and every updated_at, the other
\* fields in fewer combinations (merged, created and closed at one time)
ListingRecords(rp) ==
    {pr \in PullRequestsOf(rp) :
        /\ pr.Number = 1
        /\ pr.MergedAt # EmptyStr
        /\ pr.ClosedAt = pr.CreatedAt}

ListRecordOfListing == ListRecordIn(ListingRecords(repo))

NextListing ==
    \/ initConfig
    \/ ListFetch
    \/ ListRecordOfListing
    \/ ListReturn

\* The program is sequential: an enabled step of it is taken
SpecListing == Init /\ [][NextListing]_vars /\ WF_vars(NextListing)

----------------------------------------------------------------------------
(* The body of the listing loop alone, on the records of one page *)

\* main.go:613-633  the configurations initConfig lets through
Configs ==
    {[c EXCEPT !.Now = ParseTime(c.Before).t, !.FetchSince = ParseTime(c.Since).t] :
        c \in {f \in Flags(TimeStrs) : ~ConfigError(f)}}

\* query.go:303-309  the first page of the first repository has been fetched
\* and holds a record or more
InitVisit ==
    /\ cfg \in Configs
    /\ pc = "page"
    /\ repo = 1
    /\ url \in NextURLs(1)
    /\ done = FALSE
    /\ os = <<>>
    /\ cs = <<>>
    /\ open = <<>>
    /\ closed = <<>>
    /\ err = FALSE
    /\ remaining \in 1..MaxPageLen
    /\ di = 0
    /\ nListed = remaining
    /\ cut = FALSE
    /\ wantOpen = <<>>
    /\ wantClosed = <<>>
    /\ seen = {}
    /\ requests = << [kind |-> "list", repo |-> 1, arg |-> 1] >>
    /\ failure = NoFailure
    /\ files = <<>>
    /\ fetched = <<>>
    /\ sds = <<>>
    /\ result = <<>>
    /\ fpc = "idle"
    /\ unfetched = 0
    /\ IdleD
    /\ IdleM
    /\ rec = <<>>

\* query.go:310-348  the loop body on the next record, which rec keeps
VisitNext ==
    /\ pc = "page"
    /\ remaining > 0
    /\ \E pr \in PullRequestsOf(repo) :
         /\ ListRecordOn(pr)
         /\ rec' = <<pr>>

NextVisit == VisitNext

SpecVisit == InitVisit /\ [][NextVisit]_vars

\* The file sizes of the pull requests handed to Digest: around each bound
ChangeSizes ==
    {0, tinyPR - 1, tinyPR, smallPR - 1, smallPR, mediumPR - 1, mediumPR,
     largePR - 1, largePR, largePR + 1}

\* A detailed pull request with one file of c changes
Detailed(n, st, c) ==
    [Repo |-> 1, Number |-> n, State |-> st, CreatedAt |-> <<1>>,
     ClosedAt |-> IF st = "closed" THEN <<1>> ELSE EmptyStr,
     Files |-> << [Filename |-> <<"a", "/", "x", ".", "g", "o">>, Changes |-> c] >>]

\* main.go:639-644  Query has returned n detailed pull requests, the first k
\* of them open; the listing is not part of this specification
InitDigest ==
    /\ cfg = [Repos |-> 1, FetchSince |-> 0, Now |-> 0]
    /\ pc = "done"
    /\ repo = 1
    /\ url = 0
    /\ done = FALSE
    /\ os = <<>>
    /\ cs = <<>>
    /\ \E n \in 0..MaxDigest : \E k \in 0..n : \E size \in [1..n -> ChangeSizes] :
         /\ open = [i \in 1..k |-> Detailed(i, "open", size[i])]
         /\ closed = [i \in 1..(n - k) |-> Detailed(k + i, "closed", size[k + i])]
    /\ err = FALSE
    /\ remaining = 0
    /\ di = 0
    /\ nListed = 0
    /\ cut = FALSE
    /\ wantOpen = <<>>
    /\ wantClosed = <<>>
    /\ seen = {}
    /\ requests = <<>>
    /\ failure = NoFailure
    /\ files = <<>>
    /\ fetched = <<>>
    /\ sds = <<>>
    /\ result = <<>>
    /\ fpc = "idle"
    /\ unfetched = 0
    /\ IdleD
    /\ IdleM
    /\ rec = <<>>

NextDigest == Digest

SpecDigest == InitDigest /\ [][NextDigest]_vars

----------------------------------------------------------------------------
(* Properties of Class and of the order Digest gives the pull requests *)

\* The pull requests in the order the template renders them
RenderedPullRequests == open \o closed

ClassesRendered ==
    pc = "exit" /\ digested /\ Len(classes) = Len(RenderedPullRequests)

\* The five buckets: 1 tiny, 2 small, 3 medium, 4 large, 5 huge
BucketOf(tc) ==
    IF tc < 20 THEN 1
    ELSE IF tc <= 99 THEN 2
    ELSE IF tc <= 499 THEN 3
    ELSE IF tc <= 999 THEN 4
    ELSE 5

Occurrences(s, x) == Cardinality({i \in 1..Len(s) : s[i] = x})

IsPermutationOf(a, b) ==
    /\ Len(a) = Len(b)
    /\ \A x \in Range(a) \cup Range(b) : Occurrences(a, x) = Occurrences(b, x)

Descending(s) ==
    \A i, j \in 1..Len(s) :
        i < j => PullRequestTotalChanges(s[i]) >= PullRequestTotalChanges(s[j])

\* C14: after Digest the open slice is a permutation of the open slice it was
\* given, and so is the closed slice, and in each of them TotalChanges at an
\* earlier position is greater than or equal to TotalChanges at a later one.
C14_SortedDescending ==
    (pc = "exit" /\ digested) =>
        /\ IsPermutationOf(open, preOpen)
        /\ IsPermutationOf(closed, preClosed)
        /\ Descending(open)
        /\ Descending(closed)

\* Digest was handed an open slice in ascending order of size, and a closed one.
C14_Witness ==
    /\ pc = "exit"
    /\ digested
    /\ Len(preOpen) >= 2
    /\ PullRequestTotalChanges(preOpen[1]) < PullRequestTotalChanges(preOpen[2])
    /\ open # preOpen
    /\ Len(closed) >= 1

PlaceIn(s, pr) == CHOOSE i \in 1..Len(s) : s[i] = pr

KeepsTies(before, after) ==
    \A i, j \in 1..Len(before) :
        (i < j /\ PullRequestTotalChanges(before[i]) = PullRequestTotalChanges(before[j]))
            => PlaceIn(after, before[i]) < PlaceIn(after, before[j])

\* C15: two pull requests of equal TotalChanges are, after the sort in Digest,
\* in the order they had before it, in the open and in the closed slice.
C15_StableSort ==
    (pc = "exit" /\ digested) =>
        KeepsTies(preOpen, open) /\ KeepsTies(preClosed, closed)

----------------------------------------------------------------------------
(* Properties of the requests and of the way a run ends *)

DetailKinds == {"record", "commits", "files"}

\* C16: when a detail request fails, it is the last request of the run, and
\* Query returns the error with no open and no closed result, also when the
\* failing request belongs to the closed pass.
C16_DetailFailureAborts ==
    failure.in \in {"detailOpen", "detailClosed"} =>
        /\ pc \in {"failed", "exit"}
        /\ err
        /\ open = <<>>
        /\ closed = <<>>
        /\ failure.req = Len(requests)
        /\ requests[failure.req].kind \in DetailKinds

\* The commit list of a closed pull request fails after the open pass has
\* fetched the details of a pull request.
C16_Witness ==
    /\ pc = "failed"
    /\ failure.in = "detailClosed"
    /\ failure.nOpen >= 1
    /\ requests[failure.req].kind = "commits"

\* C17: when Query fails, on a list page, on a timestamp of a visited record
\* or on a detail request, Digest is not invoked, no digest file is created
\* and runDigest returns an error.
C17_FailedQueryAbortsRun ==
    err =>
        /\ failure.in \in {"list", "page", "detailOpen", "detailClosed"}
        /\ ~digested
        /\ ~outFile
        /\ classes = <<>>
        /\ ret \in {"running", "error"}
        /\ pc \in {"failed", "exit"}
        /\ (pc = "exit" => ret = "error")

\* runDigest has returned after a timestamp of a listed record did not parse.
C17_Witness ==
    /\ err
    /\ pc = "exit"
    /\ ret = "error"
    /\ failure.in = "page"
    /\ nListed >= 2

ListRequestsMade == Cardinality({i \in 1..Len(requests) : requests[i].kind = "list"})

\* The requests after the list requests, three per pull request
DetailPart == SubSeq(requests, ListRequestsMade + 1, Len(requests))

RecordCommitsFiles(pr) ==
    << [kind |-> "record",  repo |-> pr.Repo, arg |-> pr.Number],
       [kind |-> "commits", repo |-> pr.Repo, arg |-> pr.Number],
       [kind |-> "files",   repo |-> pr.Repo, arg |-> pr.Number] >>

RECURSIVE RequestsFor(_)
RequestsFor(prs) ==
    IF prs = <<>> THEN <<>> ELSE RecordCommitsFiles(Head(prs)) \o RequestsFor(Tail(prs))

\* The pull requests whose details a run that has not failed has fetched so far
DetailedSoFar ==
    CASE pc = "detailOpen" -> SubSeq(open, 1, di)
      [] pc = "detailClosed" -> open \o SubSeq(closed, 1, di)
      [] pc = "done" -> open \o closed
      [] pc = "exit" -> preOpen \o preClosed
      [] OTHER -> <<>>

\* C18: the list requests of all repositories, in configuration order, come
\* before every detail request; the detail requests of the open slice come
\* before those of the closed slice; and each pull request gets its record,
\* then its commits, then its files.  After a failure the slices are gone:
\* the requests of the open pass are then told by their number.
C18_RequestOrder ==
    LET made == ListRequestsMade
        part == DetailPart
    IN /\ \A i \in 1..Len(requests) :
            (requests[i].kind = "list") <=> (i <= made)
       /\ \A i, j \in 1..made :
            i < j => \/ requests[i].repo < requests[j].repo
                     \/ /\ requests[i].repo = requests[j].repo
                        /\ requests[i].arg < requests[j].arg
       /\ \A k \in 1..Len(part) :
            /\ part[k].kind = <<"record", "commits", "files">>[((k - 1) % 3) + 1]
            /\ part[k].repo = part[k - ((k - 1) % 3)].repo
            /\ part[k].arg = part[k - ((k - 1) % 3)].arg
       /\ ~err => part = RequestsFor(DetailedSoFar)
       /\ failure.in \in {"list", "page"} => part = <<>>
       /\ failure.in = "detailOpen" => Len(part) <= 3 * failure.nOpen
       /\ failure.in = "detailClosed" => Len(part) > 3 * failure.nOpen

\* Two repositories listed, then an open and a closed pull request detailed.
C18_Witness ==
    /\ pc = "done"
    /\ ~err
    /\ \E i \in 1..Len(requests) : requests[i].kind = "list" /\ requests[i].repo = 2
    /\ Len(open) >= 1
    /\ Len(closed) >= 1
    /\ Len(requests) = ListRequestsMade + 3 * (Len(open) + Len(closed))

DetailFetchesOf(rp, n) ==
    Cardinality({i \in 1..Len(requests) :
                   /\ requests[i].kind = "record"
                   /\ requests[i].repo = rp
                   /\ requests[i].arg = n})

IsReturned(rp, n) ==
    \E pr \in Range(open) \cup Range(closed) : pr.Repo = rp /\ pr.Number = n

\* C19: when Query succeeds, the details of every pull request of the returned
\* open and closed slices have been fetched exactly once, and of no other
\* pull request.
C19_DetailOncePerReturned ==
    Returned =>
        \A rp \in 1..MaxRepos, n \in 1..MaxNum :
            DetailFetchesOf(rp, n) = IF IsReturned(rp, n) THEN 1 ELSE 0

----------------------------------------------------------------------------
(* CountMonthly and CountMonthlyPullRequests.  An instant is a day number;  *)
(* the months of the calendar have 2 days and 1 day in turn, month 0        *)
(* starting on day 0.                                                       *)

MaxDay == 5         \* since, now and created_at are days 0..MaxDay

Days == 0..MaxDay
DayStrs == {EmptyStr} \cup {<<d>> : d \in Days}

MonthLen(m) == IF m % 2 = 0 THEN 2 ELSE 1

MonthOf(t) == IF t % 3 < 2 THEN 2 * (t \div 3) ELSE 2 * (t \div 3) + 1

AddDate_FixedDays(t) == t - 2

\* t.AddDate(0, -1, 0): the same day of the month before, a day past the end
\* of that month running over into the next, which is t less the length of
\* the month before
AddDate(t) == t - MonthLen(MonthOf(t) - 1)

RECURSIVE Slots_Strict(_, _)
Slots_Strict(t, since) ==
    IF ~Before(since, t) THEN <<>> ELSE <<0>> \o Slots_Strict(AddDate(t), since)

\* query.go:387-391  one slot for now and for every month step back to since
RECURSIVE Slots(_, _)
Slots(t, since) ==
    IF Before(t, since) THEN <<>> ELSE <<0>> \o Slots(AddDate(t), since)

\* query.go:411-419  fillCounts; counts[idx] with idx out of range panics
RECURSIVE fillCounts(_, _)
fillCounts(st, prT) ==
    IF ~Before(prT, st.nextT) THEN st
    ELSE IF st.idx >= Len(st.counts) THEN [st EXCEPT !.panic = TRUE]
    ELSE fillCounts([st EXCEPT !.counts[st.idx + 1] = @ + st.monthTotal,
                               !.idx = @ + 1,
                               !.monthTotal = 0,
                               !.nextT = AddDate(@)], prT)

CreatedAfterSince_Inclusive(c, t) == ~Before(t, c.FetchSince)

\* query.go:433-437  c.FetchSince.Before(prT): the record is counted; when it
\* is false the loops end
CreatedAfterSince(c, t) == Before(c.FetchSince, t)

Counting ==
    [counts |-> counts, idx |-> idx, monthTotal |-> monthTotal, nextT |-> nextT,
     panic |-> FALSE]

\* main.go:680  runCountMonthly is entered
InitMonthly ==
    /\ cfg \in Flags(DayStrs)
    /\ pc = "runCountMonthly"
    /\ repo = 0
    /\ url = 0
    /\ done = FALSE
    /\ os = <<>>
    /\ cs = <<>>
    /\ open = <<>>
    /\ closed = <<>>
    /\ err = FALSE
    /\ remaining = 0
    /\ di = 0
    /\ nListed = 0
    /\ cut = FALSE
    /\ wantOpen = <<>>
    /\ wantClosed = <<>>
    /\ seen = {}
    /\ requests = <<>>
    /\ failure = NoFailure
    /\ files = <<>>
    /\ fetched = <<>>
    /\ sds = <<>>
    /\ result = <<>>
    /\ fpc = "idle"
    /\ unfetched = 0
    /\ IdleD
    /\ IdleM
    /\ rec = <<>>

\* query.go:406-409  the locals of CountMonthlyPullRequests for repository rp
EnterRepo(rp) ==
    /\ repo' = rp
    /\ url' = 1
    /\ done' = FALSE
    /\ idx' = 0
    /\ monthTotal' = 0
    /\ nextT' = AddDate(cfg.Now)

\* query.go:393-395, 426, 431  return nil, err; runCountMonthly returns it
FailMonthly ==
    /\ pc' = "failed"
    /\ err' = TRUE
    /\ counts' = <<>>
    /\ ret' = "error"

\* counts[idx] out of range
PanicMonthly ==
    /\ pc' = "panic"
    /\ ret' = "panic"

\* query.go:386-392  the slots, and the call for the first repository
CountMonthly ==
    /\ pc = "count"
    /\ counts' = Slots(cfg.Now, cfg.FetchSince)
    /\ EnterRepo(1)
    /\ pc' = "mlist"
    /\ UNCHANGED <<cfg, os, cs, open, closed, err, remaining, di, nListed, cut,
                   wantOpen, wantClosed, seen, requests, failure>>
    /\ UNCHANGED <<visited, visitedIn>>
    /\ UNCHANGED <<varsF, varsD>>
    /\ UNCHANGED varsV

\* query.go:421-427  the loop head and the page fetch
MonthlyFetch ==
    /\ pc = "mlist"
    /\ LoopCond(url, done)
    /\ \/ /\ FailMonthly
          /\ UNCHANGED <<url, remaining, nListed>>
       \/ \E n \in 0..Min(MaxPageLen, MaxListed - nListed), next \in NextURLs(url) :
            /\ url' = next
            /\ remaining' = n
            /\ nListed' = nListed + n
            /\ pc' = IF n = 0 THEN "mlist" ELSE "mpage"
            /\ UNCHANGED <<err, counts, ret>>
    /\ UNCHANGED <<cfg, repo, done, os, cs, open, closed, di, cut, wantOpen,
                   wantClosed, seen, requests, failure>>
    /\ UNCHANGED <<idx, monthTotal, nextT, visited, visitedIn>>
    /\ UNCHANGED <<digested, outFile, classes, preOpen, preClosed, nextsince>>
    /\ UNCHANGED varsF
    /\ UNCHANGED varsV

\* query.go:428-440  the loop body on the next record of the fetched page
MonthlyRecord ==
    /\ pc = "mpage"
    /\ remaining > 0
    /\ \E created \in DayStrs :
         LET prT == ParseTime(created) IN
         IF prT.err
         THEN /\ FailMonthly
              /\ UNCHANGED <<done, remaining, idx, monthTotal, nextT, visited,
                             visitedIn>>
         ELSE /\ visited' = Append(visited, prT.t)
              /\ visitedIn' = Append(visitedIn, repo)
              /\ IF ~CreatedAfterSince(cfg, prT.t)
                 THEN /\ done' = TRUE
                      /\ pc' = "mlist"
                      /\ UNCHANGED <<remaining, counts, idx, monthTotal, nextT,
                                     err, ret>>
                 ELSE LET st == fillCounts(Counting, prT.t) IN
                      /\ counts' = st.counts
                      /\ idx' = st.idx
                      /\ nextT' = st.nextT
                      /\ IF st.panic
                         THEN /\ PanicMonthly
                              /\ monthTotal' = st.monthTotal
                              /\ UNCHANGED <<remaining, done, err>>
                         ELSE /\ monthTotal' = st.monthTotal + 1
                              /\ remaining' = remaining - 1
                              /\ pc' = IF remaining = 1 THEN "mlist" ELSE "mpage"
                              /\ UNCHANGED <<done, err, ret>>
    /\ UNCHANGED <<cfg, repo, url, os, cs, open, closed, di, nListed, cut,
                   wantOpen, wantClosed, seen, requests, failure>>
    /\ UNCHANGED <<digested, outFile, classes, preOpen, preClosed, nextsince>>
    /\ UNCHANGED varsF
    /\ UNCHANGED varsV

\* query.go:442-444 and 392-397  the last fillCounts and counts[idx]; then the
\* next repository, or CountMonthly returns and runCountMonthly prints
\* (main.go:691-699)
MonthlyReturn ==
    /\ pc = "mlist"
    /\ ~LoopCond(url, done)
    /\ LET st == fillCounts(Counting, cfg.FetchSince) IN
       IF st.panic \/ st.idx >= Len(st.counts)
       THEN /\ PanicMonthly
            /\ counts' = st.counts
            /\ idx' = st.idx
            /\ monthTotal' = st.monthTotal
            /\ nextT' = st.nextT
            /\ UNCHANGED <<repo, url, done>>
       ELSE /\ counts' = [st.counts EXCEPT ![st.idx + 1] = @ + st.monthTotal]
            /\ IF repo < cfg.Repos
               THEN /\ EnterRepo(repo + 1)
                    /\ pc' = "mlist"
                    /\ UNCHANGED ret
               ELSE /\ pc' = "counted"
                    /\ ret' = "nil"
                    /\ idx' = st.idx
                    /\ monthTotal' = st.monthTotal
                    /\ nextT' = st.nextT
                    /\ UNCHANGED <<repo, url, done>>
    /\ UNCHANGED <<cfg, os, cs, open, closed, err, remaining, di, nListed, cut,
                   wantOpen, wantClosed, seen, requests, failure>>
    /\ UNCHANGED <<visited, visitedIn>>
    /\ UNCHANGED <<digested, outFile, classes, preOpen, preClosed, nextsince>>
    /\ UNCHANGED varsF
    /\ UNCHANGED varsV

NextMonthly ==
    \/ initConfig
    \/ CountMonthly
    \/ MonthlyFetch
    \/ MonthlyRecord
    \/ MonthlyReturn

SpecMonthly == InitMonthly /\ [][NextMonthly]_vars

----------------------------------------------------------------------------
(* Properties of the monthly counts *)

RECURSIVE SumOf(_)
SumOf(s) == IF s = <<>> THEN 0 ELSE Head(s) + SumOf(Tail(s))

VisitedAtSince == Cardinality({i \in 1..Len(visited) : visited[i] = cfg.FetchSince})
VisitedAfterSince == Cardinality({i \in 1..Len(visited) : visited[i] > cfg.FetchSince})

\* C20: a visited pull request created exactly at since is counted, and it is
\* counted in the last slot of counts.
C20_AtSinceInOldestSlot ==
    (pc = "counted" /\ VisitedAtSince > 0) =>
        /\ SumOf(counts) = VisitedAfterSince + VisitedAtSince
        /\ counts[Len(counts)] >= VisitedAtSince

VisitedNotAfterSince == Cardinality({i \in 1..Len(visited) : visited[i] <= cfg.FetchSince})

\* C20, as the counter behaves: a visited pull request created exactly at
\* since is counted in no slot; it ends the listing of its repository, and
\* the slots count the pull requests visited that were created after since.
C20_AtSinceNotCounted ==
    /\ VisitedNotAfterSince <= repo
    /\ pc = "counted" => SumOf(counts) = VisitedAfterSince

\* Pull requests created after since were counted, and the listing of each
\* repository ended at one created exactly at since.
C20_Witness ==
    /\ pc = "counted"
    /\ VisitedAtSince = cfg.Repos
    /\ VisitedAfterSince > 0
    /\ Len(counts) >= 2

\* The first day of month m, and one calendar month before day t: the day of
\* the month before that has the place t has in its month
MonthStart(m) == 3 * (m \div 2) + (IF m % 2 = 0 THEN 0 ELSE 2)
MonthBefore(t) == MonthStart(MonthOf(t) - 1) + (t - MonthStart(MonthOf(t)))

\* t_k: now, k calendar months back one at a time
RECURSIVE MonthStep(_)
MonthStep(k) == IF k = 0 THEN cfg.Now ELSE MonthBefore(MonthStep(k - 1))

SlotsWanted == Cardinality({k \in 0..MaxDay : MonthStep(k) >= cfg.FetchSince})

\* Every repository listed its records in descending order of created_at
ListedDescending ==
    \A i, j \in 1..Len(visited) :
        (i < j /\ visitedIn[i] = visitedIn[j]) => visited[i] >= visited[j]

SlotsBuilt == pc \in {"mlist", "mpage", "counted"}

CountedWithin(lo, hi) ==
    Cardinality({i \in 1..Len(visited) :
                   visited[i] > cfg.FetchSince /\ lo <= visited[i] /\ visited[i] < hi})

CountedFrom(lo) ==
    Cardinality({i \in 1..Len(visited) :
                   visited[i] > cfg.FetchSince /\ lo <= visited[i]})

----------------------------------------------------------------------------
(* Properties of initConfig *)

\* Query or CountMonthly has been started
FetchStarted ==
    pc \in {"list", "page", "detailOpen", "detailClosed", "done", "failed",
            "count", "mlist", "mpage", "counted", "panic"}

\* C22: whenever Query or CountMonthly has been started, the configuration
\* has since <= before (FetchSince is not later than Now).
C22_SinceNotAfterBefore ==
    FetchStarted => cfg.FetchSince <= cfg.Now

\* C23: with no repository or with an empty template path the command ends
\* with an error and nothing has run: no request, no Query, no CountMonthly,
\* no Digest, no digest file.
C23_ConfigRejected ==
    (cfg.Repos = 0 \/ cfg.Template = EmptyStr) =>
        /\ pc \in {"runDigest", "runCountMonthly", "exit"}
        /\ (pc = "exit" => ret = "error")
        /\ requests = <<>>
        /\ nListed = 0
        /\ counts = <<>>
        /\ ~digested
        /\ ~outFile

\* The command has returned on a configuration with repositories, dates that
\* parse, and an empty template path.
C23_Witness ==
    /\ pc = "exit"
    /\ ret = "error"
    /\ cfg.Repos > 0
    /\ cfg.Template = EmptyStr
    /\ ~ParseTime(cfg.Before).err
    /\ ~ParseTime(cfg.Since).err

----------------------------------------------------------------------------
(* The resumption timestamp of runDigest *)

\* The instants the returned pull requests carry: created_at of the open
\* ones, closed_at of the closed ones
ReturnedInstants ==
    {ParseTime(open[i].CreatedAt).t : i \in 1..Len(open)}
        \cup {ParseTime(closed[i].ClosedAt).t : i \in 1..Len(closed)}

Completed == pc = "exit" /\ digested /\ ret = "nil"

----------------------------------------------------------------------------
(* The bucket index of CountMonthlyPullRequests *)

\* CountMonthlyPullRequests has been entered
CountingStarted == pc \in {"mlist", "mpage", "counted", "panic"}

\* C28: with FetchSince <= Now, whatever the pages hold, no read or write of
\* counts[idx] is out of range, and between the records idx is an index of
\* counts.
C28_IndexInRange ==
    (CountingStarted /\ cfg.FetchSince <= cfg.Now) =>
        /\ pc # "panic"
        /\ ret # "panic"
        /\ idx \in 0..(Len(counts) - 1)

\* Both repositories counted with since <= now over three slots or more,
\* records visited out of order, and idx ending in the last slot
C28_Witness ==
    /\ pc = "counted"
    /\ cfg.FetchSince <= cfg.Now
    /\ Len(counts) >= 3
    /\ idx = Len(counts) - 1
    /\ \E i, j \in 1..Len(visited) :
         i < j /\ visitedIn[i] = visitedIn[j] /\ visited[i] < visited[j]
    /\ \E i \in 1..Len(visitedIn) : visitedIn[i] = 1
    /\ \E i \in 1..Len(visitedIn) : visitedIn[i] = 2

----------------------------------------------------------------------------
(* The pages of the files endpoint *)

\* C26: after the detail pass the file list holds every changed file of the
\* pull request: none is left on a following page of the files endpoint.
C26_AllFilesFetched ==
    fpc # "fetch" => unfetched = 0

----------------------------------------------------------------------------
(* Records in another state than "open" and "closed" *)

\* The visited record is in range: its updated_at parses and is after since
InRange(pr) == StrictlyAfterSince(cfg, pr.UpdatedAt)

OtherState(pr) == pr.State \notin {"open", "closed"}

\* C25: the loop body on a record in range whose state is neither "open" nor
\* "closed" adds it to neither set and raises no error, whatever its
\* created_at and closed_at are, and the listing goes on with the next record.
C25_OtherStateSkipped ==
    [][(pc = "page" /\ Len(rec') = 1 /\ InRange(rec'[1]) /\ OtherState(rec'[1])) =>
          /\ os' = os
          /\ cs' = cs
          /\ ~err'
          /\ ~done'
          /\ remaining' = remaining - 1
          /\ pc' = IF remaining = 1 THEN "list" ELSE "page"]_vars

\* The body has run on a record in range in the state "draft" with neither
\* created_at nor closed_at, after an open record was added, and the listing
\* is at the next record
C25_Witness ==
    /\ Len(rec) = 1
    /\ InRange(rec[1])
    /\ OtherState(rec[1])
    /\ rec[1].CreatedAt = EmptyStr
    /\ rec[1].ClosedAt = EmptyStr
    /\ Len(os) = 1
    /\ ~err
    /\ pc = "list"

----------------------------------------------------------------------------
(* Termination of the listing *)

\* The list requests made for repository r, in order
ListPagesOf(r) ==
    SelectSeq(requests, LAMBDA q : q.kind = "list" /\ q.repo = r)

\* The pages of every repository are requested in the order of the chain of
\* next-page links, each once
PagesOnce ==
    \A r \in 1..MaxRepos :
        \A i \in 1..Len(ListPagesOf(r)) : ListPagesOf(r)[i].arg = i

\* QueryPullRequests returns for the repository under listing
ListingReturns == pc' = "detailOpen" \/ repo' # repo

\* A step at the loop head that returns no error ends the loop exactly when
\* the next-page URL is empty or a record with updated_at <= since was met;
\* otherwise it requests the page the URL names
LoopEnds ==
    (pc = "list" /\ ~err') =>
        /\ ListingReturns <=> (url = 0 \/ cut)
        /\ ~ListingReturns =>
               requests' = Append(requests, [kind |-> "list", repo |-> repo,
                                             arg |-> url])

\* C27: the listing of every repository comes to an end: it returns unless a
\* page fetch failed or a timestamp did not parse; its loop ends exactly when
\* the next-page URL is empty or a record with updated_at <= since was met;
\* and the pages before that point are fetched once each, in order.
C27_ListingTerminates ==
    /\ \A r \in 1..MaxRepos :
          (Listing /\ repo = r) ~> (err \/ pc = "detailOpen" \/ repo > r)
    /\ [][LoopEnds]_vars
    /\ []PagesOnce

\* Both listings have returned: the first after the two pages of its chain,
\* the second after its first page
C27_Witness ==
    /\ pc = "detailOpen"
    /\ ~err
    /\ requests = << [kind |-> "list", repo |-> 1, arg |-> 1],
                     [kind |-> "list", repo |-> 1, arg |-> 2],
                     [kind |-> "list", repo |-> 2, arg |-> 1] >>
    /\ nListed = MaxListed

====
